---- MODULE Spec2Model ----
(***************************************************************************)
(* Model of src/main.rs: main() calls run(), reports an error if any, and  *)
(* pauses in wait_for_enter(). run() resolves the input path (argument or  *)
(* open dialog), checks the extension, queries the size, probes the file   *)
(* by trial decompression, asks for the output path, re-reads the input,   *)
(* transforms it (decompress + format_json, or compress) and writes it.    *)
(*                                                                         *)
(* Bytes are 0..2. As text: 0 is a blank, 1 is the digit '1', 2 is a byte  *)
(* that no UTF-8 text contains. The zlib stream is modelled with its       *)
(* framing: a header byte, length-prefixed blocks closed by an empty       *)
(* block, and a checksum of the payload.                                   *)
(***************************************************************************)
EXTENDS Integers, Sequences, FiniteSets, TLC

VARIABLES pc, args, fs, fs0, truncOk, picked, input_path, input_size, is_compressed,
          suggested_name, output_path, compressed_data, decompressed_data,
          formatted_json, text, result, stdout, stderr, ops, envTouched

vars == <<pc, args, fs, fs0, truncOk, picked, input_path, input_size, is_compressed,
          suggested_name, output_path, compressed_data, decompressed_data,
          formatted_json, text, result, stdout, stderr, ops, envTouched>>

\* ---------------------------------------------------------------- bounds
\* longest file content the initial file system holds
MaxFile == 6

\* ----------------------------------------------------------------- bytes
Byte == 0..2
\* b' ' : JSON whitespace
SP == 0
\* b'1' : a JSON digit
D1 == 1
\* 0xFF : never part of valid UTF-8
BAD == 2
\* first byte of a zlib stream (CMF)
HDR == 1
\* longest block the encoder emits (one length byte)
MaxChunk == 2
\* modulus of the stream checksum
AdlerMod == 3

\* a value not yet assigned / a file that does not exist
Unset == <<-1>>
Missing == <<-1>>
NoPath == <<>>

Min(a, b) == IF a < b THEN a ELSE b

RECURSIVE SeqsUpTo(_)
SeqsUpTo(n) ==
  IF n = 0 THEN {<<>>}
  ELSE LET S == SeqsUpTo(n - 1)
       IN S \cup {Append(s, b) : s \in {x \in S : Len(x) = n - 1}, b \in Byte}

Contents == SeqsUpTo(MaxFile)

\* std::str::from_utf8 as used by read_to_string / to_str
valid_utf8(bytes) == \A i \in 1..Len(bytes) : bytes[i] # BAD

Ok(v) == [ok |-> TRUE, val |-> v, err |-> "none"]
Err(e) == [ok |-> FALSE, val |-> Unset, err |-> e]

\* ----------------------------------------------------------------- zlib
RECURSIVE Sum(_)
Sum(s) == IF s = <<>> THEN 0 ELSE Head(s) + Sum(Tail(s))

Adler(s) == Sum(s) % AdlerMod

RECURSIVE Blocks(_)
Blocks(t) ==
  IF Len(t) = 0 THEN <<0>>
  ELSE LET n == Min(Len(t), MaxChunk)
       IN <<n>> \o SubSeq(t, 1, n) \o Blocks(SubSeq(t, n + 1, Len(t)))

\* the encoder dropped without finish(): the stream has no trailer
compress_unfinished(t) == Ok(<<HDR>> \o Blocks(t))

\* ZlibEncoder::new(Vec::new(), default); write_all(text); finish()
compress(t) == Ok(<<HDR>> \o Blocks(t) \o <<Adler(t)>>)

\* the decoder's walk over the blocks from position i, with `out` decoded so far
RECURSIVE Inflate(_, _, _)
Inflate(d, i, out) ==
  IF i > Len(d) THEN [st |-> "eof", out |-> out]
  ELSE LET n == d[i] IN
    IF n = 0
    THEN IF i + 1 > Len(d) THEN [st |-> "eof", out |-> out]
         ELSE IF d[i + 1] = Adler(out) THEN [st |-> "end", out |-> out]
         ELSE [st |-> "corrupt", out |-> out]
    ELSE IF i + n > Len(d)
         THEN [st |-> "eof", out |-> out \o SubSeq(d, i + 1, Len(d))]
         ELSE Inflate(d, i + n + 1, out \o SubSeq(d, i + 1, i + n))

\* what ZlibDecoder::read_to_string does with the bytes: the decoded bytes,
\* or a failure. A stream that ends early is an error or a silent end of
\* input depending on the decoder (truncOk).
Decode(data) ==
  IF Len(data) = 0
  THEN IF truncOk THEN Ok(<<>>) ELSE Err("corrupt deflate stream")
  ELSE IF data[1] # HDR THEN Err("corrupt deflate stream")
  ELSE LET r == Inflate(data, 2, <<>>) IN
    CASE r.st = "end" -> Ok(r.out)
      [] r.st = "eof" -> IF truncOk THEN Ok(r.out)
                         ELSE Err("corrupt deflate stream")
      [] OTHER -> Err("corrupt deflate stream")

decompress(data) ==
  LET r == Decode(data) IN
    IF ~r.ok THEN r
    ELSE IF valid_utf8(r.val) THEN Ok(r.val)
    ELSE Err("stream did not contain valid UTF-8")

\* ----------------------------------------------------------- serde_json
RECURSIVE SkipWs(_)
SkipWs(s) == IF s # <<>> /\ Head(s) = SP THEN SkipWs(Tail(s)) ELSE s

\* the number read from the leading digits of s, with what follows them
RECURSIVE ParseNumber(_, _, _)
ParseNumber(s, n, acc) ==
  IF s # <<>> /\ Head(s) = D1
  THEN ParseNumber(Tail(s), n + 1, acc * 10 + 1)
  ELSE [digits |-> n, value |-> acc, rest |-> s]

\* serde_json::from_str::<Value>: blanks, one value, blanks, end of input
from_str(s) ==
  LET p == ParseNumber(SkipWs(s), 0, 0) IN
    IF p.digits = 0 THEN Err("expected value")
    ELSE IF SkipWs(p.rest) # <<>> THEN Err("trailing characters")
    ELSE Ok(p.value)

\* serde_json::to_string_pretty of a number: its decimal digits
RECURSIVE Decimal(_)
Decimal(v) == IF v < 10 THEN <<v>> ELSE Decimal(v \div 10) \o <<v % 10>>

to_string_pretty(v) == Ok(Decimal(v))

\* a parse failure answered with the default (empty) string
format_json_or_default(json_str) ==
  LET parsed == from_str(json_str) IN
    IF parsed.ok THEN to_string_pretty(parsed.val).val ELSE <<>>

format_json(json_str) ==
  LET parsed == from_str(json_str) IN
    IF parsed.ok
    THEN LET pretty == to_string_pretty(parsed.val) IN
           IF pretty.ok THEN pretty.val ELSE json_str
    ELSE json_str

\* ---------------------------------------------------------------- paths
\* a path is the sequence of characters of its file name; "FF" is a unit
\* that is not valid Unicode
Some(v) == [some |-> TRUE, v |-> v]
None == [some |-> FALSE, v |-> <<>>]

\* OsStr::to_str
to_str(os) ==
  IF \A i \in 1..Len(os) : os[i] # "FF" THEN Some(os) ELSE None

ToLowerChar(c) ==
  CASE c = "J" -> "j" [] c = "S" -> "s" [] c = "O" -> "o" [] c = "N" -> "n"
    [] c = "W" -> "w" [] c = "B" -> "b" [] c = "X" -> "x" [] c = "A" -> "a"
    [] c = "T" -> "t" [] c = "M" -> "m" [] OTHER -> c

to_lowercase(s) == [i \in 1..Len(s) |-> ToLowerChar(s[i])]

RECURSIVE LastDot(_, _)
LastDot(name, i) ==
  IF i = 0 THEN 0 ELSE IF name[i] = "." THEN i ELSE LastDot(name, i - 1)

\* Path::extension: the part after the last dot, unless the name has no
\* dot or only a leading one
extension(name) ==
  LET d == LastDot(name, Len(name)) IN
    IF d <= 1 THEN None ELSE Some(SubSeq(name, d + 1, Len(name)))

\* Path::file_stem
file_stem(name) ==
  LET d == LastDot(name, Len(name)) IN
    IF name = <<>> THEN None
    ELSE IF d <= 1 THEN Some(name) ELSE Some(SubSeq(name, 1, d - 1))

AllowedExt == {<<"w", "b", "o", "x">>, <<"w", "b", "a", "x">>, <<"j", "s", "o", "n">>}

\* the extension compared as written, without to_lowercase
ext_of_case_sensitive(path) ==
  LET e == extension(path) IN
    IF ~e.some THEN None ELSE to_str(e.v)

\* lines 52-55: extension().and_then(to_str).map(to_lowercase)
ext_of(path) ==
  LET e == extension(path) IN
    IF ~e.some THEN None
    ELSE LET s == to_str(e.v) IN
           IF s.some THEN Some(to_lowercase(s.v)) ELSE None

\* lines 56-58: the match accepts the three extensions
ext_supported(path) ==
  LET e == ext_of(path) IN e.some /\ e.v \in AllowedExt

\* the file names of the directory the model looks at
InputNames ==
  { <<"m", ".", "w", "b", "o", "x">>,
    <<"m", ".", "J", "s", "O", "n">>,
    <<"m", ".", "W", "B", "A", "X">>,
    <<"m", ".", "t", "x", "t">>,
    <<"m">>,
    <<".", "j", "s", "o", "n">>,
    <<"FF", ".", "j", "s", "o", "n">>,
    <<"FF", ".", "t", "x", "t">> }

TxtName == <<"m", ".", "t", "x", "t">>
NewName == <<"o", ".", "j", "s", "o", "n">>
NonUtf8Name == <<"FF", ".", "j", "s", "o", "n">>

AllNames ==
  InputNames \cup {NewName, <<"m", ".", "j", "s", "o", "n">>}

\* what another process may leave in the input file while the save dialog
\* is open
EnvContents == {<<SP>>, compress(<<D1>>).val, Missing}

\* ------------------------------------------------------------ file system
exists(p) == fs[p] # Missing

\* the outcomes of fs::write(path, data) that returns an error: the file
\* was not created, or it was created (emptied) and the write stopped
\* before the first byte or before the last one
FailedWrites(p, data) ==
  {fs} \cup {[fs EXCEPT ![p] = SubSeq(data, 1, k)] :
               k \in {0, Len(data) - 1} \cap 0..(Len(data) - 1)}

\* ------------------------------------------------------------------ Init
Init ==
  /\ pc = "start"
  /\ truncOk \in BOOLEAN
  /\ \E f \in InputNames, c \in Contents :
       /\ fs = [n \in AllNames |-> IF n = f THEN c ELSE Missing]
       /\ args \in {<<>>, <<f>>, <<NewName>>, <<TxtName>>}
  /\ fs0 = fs
  /\ picked = NoPath
  /\ input_path = NoPath
  /\ input_size = 0
  /\ is_compressed = FALSE
  /\ suggested_name = NoPath
  /\ output_path = NoPath
  /\ compressed_data = Unset
  /\ decompressed_data = Unset
  /\ formatted_json = Unset
  /\ text = Unset
  /\ result = "none"
  /\ stdout = <<>>
  /\ stderr = <<>>
  /\ ops = <<>>
  /\ envTouched = FALSE

Locals == <<picked, input_path, input_size, is_compressed, suggested_name, output_path,
            compressed_data, decompressed_data, formatted_json, text>>
World == <<args, fs, fs0, truncOk, envTouched>>

\* run() returns r: control is back in main (line 13)
Return(r) == result' = r /\ pc' = "main_report"

\* ----------------------------------------------------------- run(): input
\* lines 30-42: env::args().skip(1).next(); the iterator panics on an
\* argument that is not valid Unicode
ReadArgs ==
  /\ pc = "start"
  /\ IF args = <<>>
     THEN /\ stdout' = Append(stdout, "Select the file to be processed...")
          /\ pc' = "open_dialog"
          /\ UNCHANGED <<result, ops, Locals>>
     ELSE IF ~to_str(args[1]).some
     THEN /\ pc' = "panicked"
          /\ UNCHANGED <<result, stdout, ops, Locals>>
     ELSE IF ~exists(args[1])
     THEN /\ Return("Input file does not exist")
          /\ ops' = Append(ops, "exists")
          /\ UNCHANGED <<stdout, Locals>>
     ELSE /\ input_path' = args[1]
          /\ pc' = "check_ext"
          /\ ops' = Append(ops, "exists")
          /\ UNCHANGED <<result, stdout, picked, input_size, is_compressed,
                         suggested_name, output_path, compressed_data,
                         decompressed_data, formatted_json, text>>
  /\ UNCHANGED <<World, stderr>>

\* lines 43-48: open_file_dialog().context(..)?, then the to_str test
OpenDialog ==
  /\ pc = "open_dialog"
  /\ \E answer \in {None} \cup {Some(n) : n \in {x \in InputNames : exists(x)}} :
       IF ~answer.some
       THEN /\ Return("Failed to select file")
            /\ ops' = Append(ops, "open_dialog_cancelled")
            /\ UNCHANGED <<stdout, Locals>>
       ELSE IF ~to_str(answer.v).some
       THEN /\ picked' = answer.v
            /\ stdout' = Append(stdout, "File is not selected")
            /\ Return("Ok")
            /\ ops' = Append(ops, "open_dialog")
            /\ UNCHANGED <<input_path, input_size, is_compressed,
                           suggested_name, output_path, compressed_data,
                           decompressed_data, formatted_json, text>>
       ELSE /\ picked' = answer.v
            /\ input_path' = answer.v
            /\ pc' = "check_ext"
            /\ ops' = Append(ops, "open_dialog")
            /\ UNCHANGED <<result, stdout, input_size, is_compressed,
                           suggested_name, output_path, compressed_data,
                           decompressed_data, formatted_json, text>>
  /\ UNCHANGED <<World, stderr>>

\* lines 52-65
CheckExt ==
  /\ pc = "check_ext"
  /\ IF ext_supported(input_path)
     THEN pc' = "input_size" /\ UNCHANGED result
     ELSE Return("Unsupported file extension")
  /\ UNCHANGED <<World, Locals, stdout, stderr, ops>>

\* lines 67-71: fs::metadata(&input_path)?.len()
InputSize ==
  /\ pc = "input_size"
  /\ \E io_ok \in BOOLEAN :
       IF io_ok /\ exists(input_path)
       THEN /\ input_size' = Len(fs[input_path])
            /\ stdout' = stdout \o <<"File selected", "File size">>
            /\ pc' = "probe"
            /\ UNCHANGED result
       ELSE /\ Return("Failed to get the file size")
            /\ UNCHANGED <<input_size, stdout>>
  /\ ops' = Append(ops, "metadata")
  /\ UNCHANGED <<World, stderr, picked, input_path, is_compressed, suggested_name,
                 output_path, compressed_data, decompressed_data,
                 formatted_json, text>>

\* detection by the header byte instead of by trial decompression
is_file_compressed_by_magic(path, io_ok) ==
  IF io_ok /\ exists(path)
  THEN Ok(fs[path] # <<>> /\ fs[path][1] = HDR)
  ELSE Err("File reading error")

\* lines 142-147: Ok(decompress(&data).is_ok()), or the read error
is_file_compressed(path, io_ok) ==
  IF io_ok /\ exists(path)
  THEN Ok(decompress(fs[path]).ok)
  ELSE Err("File reading error")

\* lines 73-77
Probe ==
  /\ pc = "probe"
  /\ \E io_ok \in BOOLEAN :
       LET r == is_file_compressed(input_path, io_ok) IN
         IF r.ok
         THEN /\ is_compressed' = r.val
              /\ stdout' = Append(stdout,
                   IF r.val THEN "File is compressed" ELSE "File is not compressed")
              /\ pc' = "suggest"
              /\ UNCHANGED result
         ELSE /\ Return(r.err)
              /\ UNCHANGED <<is_compressed, stdout>>
  /\ ops' = Append(ops, "probe")
  /\ UNCHANGED <<World, stderr, picked, input_path, input_size, suggested_name,
                 output_path, compressed_data, decompressed_data,
                 formatted_json, text>>

\* lines 79-86: file_stem().unwrap().to_str().unwrap()
SuggestName ==
  /\ pc = "suggest"
  /\ LET stem == file_stem(input_path)
         default_extension == IF is_compressed THEN <<"j", "s", "o", "n">>
                              ELSE <<"w", "b", "o", "x">>
     IN IF ~stem.some \/ ~to_str(stem.v).some
        THEN /\ pc' = "panicked"
             /\ UNCHANGED <<suggested_name, stdout>>
        ELSE /\ suggested_name' = to_str(stem.v).v \o <<".">> \o default_extension
             /\ stdout' = Append(stdout, "Specify the path to save the file...")
             /\ pc' = "save_dialog"
  /\ UNCHANGED <<World, stderr, result, ops, picked, input_path, input_size,
                 is_compressed, output_path, compressed_data,
                 decompressed_data, formatted_json, text>>

branch_swapped(compressed) == IF compressed THEN "cmp_read" ELSE "dec_read"

\* line 93: if is_compressed { .. } else { .. }
branch_of(compressed) == IF compressed THEN "dec_read" ELSE "cmp_read"

\* lines 87-93: save_file_dialog(..).context(..)?, then the to_str test
SaveDialog ==
  /\ pc = "save_dialog"
  /\ \E answer \in {None} \cup
         {Some(n) : n \in {suggested_name, input_path, NewName, NonUtf8Name}} :
       IF ~answer.some
       THEN /\ Return("Failed to save file")
            /\ ops' = Append(ops, "save_dialog_cancelled")
            /\ UNCHANGED <<stdout, output_path>>
       ELSE IF ~to_str(answer.v).some
       THEN /\ stdout' = Append(stdout, "File is not saved")
            /\ output_path' = answer.v
            /\ Return("Ok")
            /\ ops' = Append(ops, "save_dialog")
       ELSE /\ output_path' = answer.v
            /\ pc' = branch_of(is_compressed)
            /\ ops' = Append(ops, "save_dialog")
            /\ UNCHANGED <<result, stdout>>
  /\ UNCHANGED <<World, stderr, picked, input_path, input_size, is_compressed,
                 suggested_name, compressed_data, decompressed_data,
                 formatted_json, text>>

\* another process rewrites or removes the input while the dialog is open
EnvTouch ==
  /\ pc = "save_dialog"
  /\ ~envTouched
  /\ \E c \in EnvContents :
       /\ c # fs[input_path]
       /\ fs' = [fs EXCEPT ![input_path] = c]
  /\ envTouched' = TRUE
  /\ UNCHANGED <<pc, args, fs0, truncOk, Locals, result, stdout, stderr, ops>>

\* ------------------------------------------------- run(): decompress path
\* line 94: fs::read(&input_path)?
DecRead ==
  /\ pc = "dec_read"
  /\ \E io_ok \in BOOLEAN :
       IF io_ok /\ exists(input_path)
       THEN /\ compressed_data' = fs[input_path]
            /\ pc' = "dec_decode"
            /\ UNCHANGED result
       ELSE /\ Return("io error reading the input")
            /\ UNCHANGED compressed_data
  /\ ops' = Append(ops, "read")
  /\ UNCHANGED <<World, stdout, stderr, picked, input_path, input_size, is_compressed,
                 suggested_name, output_path, decompressed_data,
                 formatted_json, text>>

\* lines 95-96: decompress(&compressed_data)?; format_json(&decompressed_data)
DecDecode ==
  /\ pc = "dec_decode"
  /\ LET r == decompress(compressed_data) IN
       IF r.ok
       THEN /\ decompressed_data' = r.val
            /\ formatted_json' = format_json(r.val)
            /\ ops' = Append(ops, "decompress")
            /\ pc' = "dec_write"
            /\ UNCHANGED result
       ELSE /\ Return(r.err)
            /\ UNCHANGED <<decompressed_data, formatted_json, ops>>
  /\ UNCHANGED <<World, stdout, stderr, picked, input_path, input_size, is_compressed,
                 suggested_name, output_path, compressed_data, text>>

\* lines 98-99: fs::write(&output_path, formatted_json)?
DecWrite ==
  /\ pc = "dec_write"
  /\ \/ /\ fs' = [fs EXCEPT ![output_path] = formatted_json]
        /\ pc' = "dec_verify"
        /\ ops' = Append(ops, "write")
        /\ UNCHANGED result
     \/ /\ fs' \in FailedWrites(output_path, formatted_json)
        /\ Return("File writing error")
        /\ ops' = Append(ops, "write_failed")
  /\ UNCHANGED <<args, fs0, truncOk, envTouched, stdout, stderr, Locals>>

\* lines 101-108: fs::metadata(&output_path)?.len(), then the report
DecVerify ==
  /\ pc = "dec_verify"
  /\ \E io_ok \in BOOLEAN :
       IF io_ok /\ exists(output_path)
       THEN /\ stdout' = stdout \o <<"File has been successfully decompressed!",
                                     "Original size", "Size after decompressing",
                                     "The result is saved in">>
            /\ Return("Ok")
       ELSE /\ Return("Failed to verify file size")
            /\ UNCHANGED stdout
  /\ ops' = Append(ops, "metadata_out")
  /\ UNCHANGED <<World, stderr, Locals>>

\* --------------------------------------------------- run(): compress path
\* line 110: fs::read_to_string(&input_path)?
CmpRead ==
  /\ pc = "cmp_read"
  /\ \E io_ok \in BOOLEAN :
       IF ~(io_ok /\ exists(input_path))
       THEN /\ Return("io error reading the input")
            /\ UNCHANGED text
       ELSE IF ~valid_utf8(fs[input_path])
       THEN /\ Return("stream did not contain valid UTF-8")
            /\ UNCHANGED text
       ELSE /\ text' = fs[input_path]
            /\ pc' = "cmp_encode"
            /\ UNCHANGED result
  /\ ops' = Append(ops, "read")
  /\ UNCHANGED <<World, stdout, stderr, picked, input_path, input_size, is_compressed,
                 suggested_name, output_path, compressed_data,
                 decompressed_data, formatted_json>>

\* line 111: compress(&text)?
CmpEncode ==
  /\ pc = "cmp_encode"
  /\ LET r == compress(text) IN
       IF r.ok
       THEN /\ compressed_data' = r.val
            /\ ops' = Append(ops, "compress")
            /\ pc' = "cmp_write"
            /\ UNCHANGED result
       ELSE /\ Return(r.err)
            /\ UNCHANGED <<compressed_data, ops>>
  /\ UNCHANGED <<World, stdout, stderr, picked, input_path, input_size, is_compressed,
                 suggested_name, output_path, decompressed_data,
                 formatted_json, text>>

\* lines 113-114: fs::write(&output_path, compressed_data)?
CmpWrite ==
  /\ pc = "cmp_write"
  /\ \/ /\ fs' = [fs EXCEPT ![output_path] = compressed_data]
        /\ pc' = "cmp_verify"
        /\ ops' = Append(ops, "write")
        /\ UNCHANGED result
     \/ /\ fs' \in FailedWrites(output_path, compressed_data)
        /\ Return("File writing error")
        /\ ops' = Append(ops, "write_failed")
  /\ UNCHANGED <<args, fs0, truncOk, envTouched, stdout, stderr, Locals>>

\* lines 116-123
CmpVerify ==
  /\ pc = "cmp_verify"
  /\ \E io_ok \in BOOLEAN :
       IF io_ok /\ exists(output_path)
       THEN /\ stdout' = stdout \o <<"File has been successfully compressed!",
                                     "Original size", "Size after compressing",
                                     "The result is saved in">>
            /\ Return("Ok")
       ELSE /\ Return("Failed to verify file size")
            /\ UNCHANGED stdout
  /\ ops' = Append(ops, "metadata_out")
  /\ UNCHANGED <<World, stderr, Locals>>

\* ------------------------------------------------------------------ main
\* lines 13-17: if let Err(e) = result { eprintln!("Error: {}", e) }
MainReport ==
  /\ pc = "main_report"
  /\ stderr' = IF result # "Ok" THEN Append(stderr, result) ELSE stderr
  /\ pc' = "wait_for_enter"
  /\ UNCHANGED <<World, Locals, result, stdout, ops>>

\* lines 19-27: the prompt, one line from stdin, then main returns
wait_for_enter ==
  /\ pc = "wait_for_enter"
  /\ stdout' = Append(stdout, "Press Enter to exit...")
  /\ ops' = Append(ops, "read_line")
  /\ pc' = "exited"
  /\ UNCHANGED <<World, Locals, result, stderr>>

Next ==
  \/ ReadArgs \/ OpenDialog \/ CheckExt \/ InputSize \/ Probe \/ SuggestName
  \/ SaveDialog \/ EnvTouch
  \/ DecRead \/ DecDecode \/ DecWrite \/ DecVerify
  \/ CmpRead \/ CmpEncode \/ CmpWrite \/ CmpVerify
  \/ MainReport \/ wait_for_enter

Spec == Init /\ [][Next]_vars

\* ================================================================ claims
Count(tag) == Cardinality({i \in 1..Len(ops) : ops[i] = tag})
Did(tag) == \E i \in 1..Len(ops) : ops[i] = tag
Transforms == Count("decompress") + Count("compress")
Returned == result # "none"
Failed == result \notin {"none", "Ok"}
DecodeErrors == {"corrupt deflate stream", "stream did not contain valid UTF-8"}
\* the path the run was given: the argument, or the open dialog's answer
GivenPath == IF args # <<>> THEN args[1] ELSE picked
\* the names of the directory whose extension is wbox, wbax or json in
\* some letter case
SupportedNames ==
  { <<"m", ".", "w", "b", "o", "x">>, <<"m", ".", "J", "s", "O", "n">>,
    <<"m", ".", "W", "B", "A", "X">>, <<"m", ".", "j", "s", "o", "n">>,
    NewName, NonUtf8Name }
\* no size query, no probe, no read, no save dialog, no write
NoFileAccess ==
  \A i \in 1..Len(ops) : ops[i] \in {"exists", "open_dialog", "read_line"}

\* C1 (as stated): every run that has returned applied exactly one of the
\* two transforms.
C1_ExactlyOnePerRun == Returned => Transforms = 1

\* C1 (amended): no run applies both transforms; a transform that is applied
\* is the one the probe chose (decompress iff is_compressed); a run that
\* reaches the write step has applied exactly one; a run that returns
\* earlier (error, cancelled dialog, non-UTF-8 path) has applied none.
C1_AtMostOneChosenByProbe ==
  /\ Transforms <= 1
  /\ Did("decompress") => is_compressed
  /\ Did("compress") => ~is_compressed
  /\ (Did("write") \/ Did("write_failed")) => Transforms = 1
  /\ (Returned /\ ~Did("save_dialog")) => Transforms = 0

C1_Witness ==
  /\ pc = "exited" /\ result = "Ok"
  /\ Did("decompress") /\ ~Did("compress") /\ Did("write")

\* C2: decompress(compress(y)) = Ok(y) for every valid UTF-8 text y that a
\* file holds when the program starts, and the file the compress path has written is classified as
\* compressed and decompresses to the text that was read.
C2_RoundTrip ==
  /\ pc = "start" =>
       \A n \in AllNames :
         (exists(n) /\ valid_utf8(fs[n])) =>
            decompress(compress(fs[n]).val) = Ok(fs[n])
  /\ pc = "cmp_verify" =>
       /\ decompress(fs[output_path]) = Ok(text)
       /\ is_file_compressed(output_path, TRUE) = Ok(TRUE)

C2_Witness ==
  /\ pc = "cmp_verify"
  /\ Len(text) > MaxChunk
  /\ decompress(fs[output_path]).val = text

\* C3: after the probe, is_compressed holds iff the probed bytes decode to
\* valid UTF-8; a decode failure is no error of the run; a run that failed
\* in the probe failed with the read error.
C3_ProbeIsTrialDecompression ==
  /\ pc = "suggest" =>
       /\ is_compressed <=>
            (Decode(fs[input_path]).ok /\ valid_utf8(Decode(fs[input_path]).val))
       /\ ~Returned
  /\ (Returned /\ ops # <<>> /\ ops[Len(ops)] = "probe") =>
        result = "File reading error"

C3_Witness ==
  /\ pc = "suggest"
  /\ Decode(fs[input_path]).ok
  /\ ~valid_utf8(Decode(fs[input_path]).val)
  /\ ~is_compressed
  /\ ~Returned

\* C4 (as stated): a run in which a dialog was cancelled ends with success,
\* nothing on the error stream and no output written.
C4_CancelIsQuietSuccess ==
  (pc = "exited" /\ (Did("open_dialog_cancelled") \/ Did("save_dialog_cancelled")))
    => (result = "Ok" /\ stderr = <<>> /\ ~Did("write"))

\* C5 (as stated): a run given a path whose extension is not supported
\* returns the unsupported-extension error and has touched no file; a path
\* with a supported extension is not rejected for its extension.
C5_UnsupportedExtensionError ==
  /\ (Returned /\ GivenPath # NoPath /\ GivenPath \notin SupportedNames) =>
        (result = "Unsupported file extension" /\ NoFileAccess)
  /\ (Returned /\ GivenPath \in SupportedNames) =>
        result # "Unsupported file extension"

\* C5 (amended): a run given a path whose extension is not supported never
\* queries the size, probes, reads, opens the save dialog or writes; once
\* the path is bound to input_path (it exists, or was picked and is valid
\* UTF-8) the run returns the unsupported-extension error; a missing
\* argument path returns the file-not-found error instead, and a picked
\* path that is not valid UTF-8 ends the run with success. A path with a
\* supported extension in any letter case passes the check.
C5_RejectedBeforeAnyRead ==
  /\ (GivenPath # NoPath /\ GivenPath \notin SupportedNames) =>
        /\ NoFileAccess
        /\ Returned => result \in {"Unsupported file extension",
                                   "Input file does not exist", "Ok"}
        /\ result = "Ok" => (args = <<>> /\ ~to_str(picked).some)
        /\ (Returned /\ input_path # NoPath) =>
              result = "Unsupported file extension"
        /\ result = "Input file does not exist" => ~exists(GivenPath)
  /\ (input_path \in SupportedNames /\ pc # "check_ext") =>
        (result # "Unsupported file extension" /\
         (pc = "input_size" => ~Returned))
  /\ result = "Unsupported file extension" => input_path \notin SupportedNames

C5_Witness ==
  /\ pc = "exited"
  /\ result = "Unsupported file extension"
  /\ input_path = <<".", "j", "s", "o", "n">>
  /\ NoFileAccess

\* C6 (as stated): no run returns an error after the output file has been
\* written.
C6_NoErrorAfterWrite == Failed => ~Did("write")

\* C7: on the decompress path the file written holds exactly format_json's
\* value: the decompressed text itself when it is not JSON, the blank-free
\* serialization of the same value when it is; no run fails on the JSON.
C7_FormatJsonTotal ==
  /\ pc = "dec_verify" => fs[output_path] = formatted_json
  /\ decompressed_data # Unset =>
       LET parsed == from_str(decompressed_data) IN
         IF parsed.ok
         THEN /\ formatted_json = Decimal(parsed.val)
              /\ from_str(formatted_json) = parsed
              /\ \A i \in 1..Len(formatted_json) : formatted_json[i] # SP
         ELSE formatted_json = decompressed_data
  /\ result \notin {"expected value", "trailing characters"}
  /\ pc = "dec_write" => (~Returned /\ formatted_json # Unset)

C7_Witness ==
  /\ pc = "dec_verify"
  /\ ~from_str(decompressed_data).ok
  /\ decompressed_data # <<>>
  /\ fs[output_path] = decompressed_data

\* C8 (as stated): once the probe has classified the input as compressed,
\* the run does not return a decode error.
C8_NoDecodeErrorAfterProbe ==
  (Did("probe") /\ is_compressed) => result \notin DecodeErrors

\* C9 (as stated): after a run that returned success, whatever the save
\* dialog answered, the input file holds the bytes it held before the run
\* (no other process having touched it).
C9_InputNeverMutated ==
  (pc = "exited" /\ result = "Ok" /\ input_path # NoPath /\ ~envTouched) =>
     fs[input_path] = fs0[input_path]

\* C10 (as stated): the process does not end without having reached the
\* exit pause.
C10_AlwaysPauses == pc \in {"exited", "panicked"} => Did("read_line")

====
